---- MODULE Spec2Model ----
(***************************************************************************)
(* Device-state synchronisation between the sensor emitters                *)
(* (sensor_publisher.py, class TemperatureHumiditySensor) and the          *)
(* dashboard observers (screen_subscriber.py, class SensorDataDisplay)     *)
(* over a topic-based publish/subscribe bus.                               *)
(*                                                                         *)
(* Payloads are records holding exactly the JSON fields the code reads;    *)
(* the constant unit fields and the wall-clock timestamps are left out.    *)
(* A JSON object that lacks a field is a record whose DOMAIN lacks it, so  *)
(* dict.get(key, default) is Get(rec, key, default).                       *)
(***************************************************************************)
EXTENDS Integers, Sequences, FiniteSets, TLC

\* ------------------------------------------------------------------ bounds

\* readings one emitter hands to the bus
MaxReadings == 2
\* web-interface toggles of one emitter
MaxToggles == 1
\* control commands one observer hands to the bus
MaxCmds == 1
\* messages the observer of ObsSpec processes
MaxMsgs == 3
\* the payloads a process is handed that are no JSON
MaxErrs == 1
\* the length of a device id typed into the dashboard
MaxLen == 2

\* ------------------------------------------------------------ the processes

\* client ids of the emitters: the client id is the device id (sensor_id)
Emitters == {"A", "B"}
\* client ids of the observers
Observers == {"o1", "o2"}
Clients == Emitters \cup Observers
\* device ids a payload on the bus may name
DeviceIds == {"A", "B", "C"}

\* random.uniform(20.0, 35.0) and random.uniform(40.0, 80.0), two values each
Temps == {20, 35}
Hums == {40, 80}

topic_temperature == "sensors/temperature"
topic_humidity == "sensors/humidity"
topic_combined == "sensors/temp_humidity"
topic_control == "sensors/control"
topic_state == "sensors/control/sub"

\* Python's None
None == [none |-> TRUE]

\* a string held where None may be held too
Str(s) == [str |-> s]

\* a payload that json.loads rejects
Garbage == [garbage |-> TRUE]

\* dict.get(k, d)
Get(rec, k, d) == IF k \in DOMAIN rec THEN rec[k] ELSE d

\* dict[k] = v
Put(f, k, v) == [x \in DOMAIN f \cup {k} |-> IF x = k THEN v ELSE f[x]]

\* the elements of a list
Range(s) == {s[i] : i \in DOMAIN s}

VARIABLES
    sensor,     \* per emitter: phase, is_connected, is_running, sensor_enabled,
                \* current_data; errors: the exceptions the emitter caught and logged
    tick,       \* per emitter: the run_sensor thread: pc and the dict being built
    net,        \* per emitter: the network thread inside on_connect
    display,    \* per observer: phase, is_connected, sensor_data, message_count,
                \* connected_devices; handling: the network thread inside
                \* on_message; web: the web thread inside a handler; emitted:
                \* the last payload handed to the web layer; undecoded: the
                \* payloads on_message could not decode
    subscribed, \* the broker: the clients whose subscriptions are in place
    inbox,      \* the broker: per client, the messages routed to it and not yet handled
    sent        \* per client and topic: the calls of client.publish and the last payload

vars == <<sensor, tick, net, display, subscribed, inbox, sent>>

\* ---------------------------------------------------------------- the bus

\* a client's subscriptions name this topic
Subscribes(c, topic) ==
    IF c \in Emitters THEN topic = topic_control
    ELSE topic \in {topic_temperature, topic_humidity, topic_combined,
                     topic_state}

\* the clients a message published on topic is routed to
Receivers(topic) == {c \in subscribed : Subscribes(c, topic)}

\* client.publish(topic, payload) by client c whose connected flag is up:
\* the message is routed to every subscriber; with the flag down the
\* transport has no socket and the message is dropped
Routed(c, up, topic, payload) ==
    [r \in Clients |->
        IF up /\ r \in Receivers(topic)
        THEN Append(inbox[r], [topic |-> topic, data |-> payload])
        ELSE inbox[r]]

\* the record of a call of client.publish
Sent(c, topic, payload) ==
    [sent EXCEPT ![c][topic] = [n |-> @.n + 1, last |-> payload]]

NoneSent == [n |-> 0, last |-> None]

\* -------------------------------------------------------------- the emitter

InitCurrentData == [temperature |-> 25, humidity |-> 60, status |-> "offline"]

\* the dict published on a toggle: the emitter's flags and its current data
StatusUpdate(e) ==
    [connected |-> sensor[e].is_connected,
     running |-> sensor[e].is_running,
     enabled |-> sensor[e].sensor_enabled,
     data |-> sensor[e].current_data]

\* start(): connect() returned True, the sensor thread is started and
\* run_sensor sets is_running
SensorStart(e) ==
    /\ sensor[e].phase = "init"
    /\ sensor[e].is_connected
    /\ sensor' = [sensor EXCEPT ![e].phase = "running", ![e].is_running = TRUE]
    /\ tick' = [tick EXCEPT ![e].pc = "loop"]
    /\ UNCHANGED <<net, display, subscribed, inbox, sent>>

\* start() that takes the end of connect()'s wait for a connection: it sets
\* the flag itself and goes on
SensorStartSetsFlag(e) ==
    /\ sensor[e].phase = "init"
    /\ ~sensor[e].is_connected
    /\ net[e] = "idle"
    /\ sensor' = [sensor EXCEPT ![e].phase = "running",
                                ![e].is_connected = TRUE,
                                ![e].is_running = TRUE]
    /\ tick' = [tick EXCEPT ![e].pc = "loop"]
    /\ UNCHANGED <<net, display, subscribed, inbox, sent>>

\* start() that ignores the result of connect() and starts the sensor thread
SensorStartAnyway(e) ==
    /\ sensor[e].phase = "init"
    /\ ~sensor[e].is_connected
    /\ net[e] = "idle"
    /\ sensor' = [sensor EXCEPT ![e].phase = "aborted", ![e].is_running = TRUE]
    /\ tick' = [tick EXCEPT ![e].pc = "loop"]
    /\ UNCHANGED <<net, display, subscribed, inbox, sent>>

\* start(): connect() returned False, start returns and the process ends
SensorStartAbort(e) ==
    /\ sensor[e].phase = "init"
    /\ ~sensor[e].is_connected
    /\ net[e] = "idle"
    /\ sensor' = [sensor EXCEPT ![e].phase = "aborted"]
    /\ UNCHANGED <<tick, net, display, subscribed, inbox, sent>>

\* on_connect that puts the emitter back into its initial, enabled state
SensorOnConnectResets(e, rc) ==
    /\ sensor[e].phase # "aborted"
    /\ ~sensor[e].is_connected
    /\ net[e] = "idle"
    /\ IF rc = 0
       THEN /\ sensor' = [sensor EXCEPT ![e].is_connected = TRUE,
                                        ![e].sensor_enabled = TRUE,
                                        ![e].current_data.status = "online"]
            /\ net' = [net EXCEPT ![e] = "subscribe"]
       ELSE UNCHANGED <<sensor, net>>
    /\ UNCHANGED <<tick, display, subscribed, inbox, sent>>

\* on_connect, lines 112-114: the flag and the status of the current data
SensorOnConnect(e, rc) ==
    /\ sensor[e].phase # "aborted"
    /\ ~sensor[e].is_connected
    /\ net[e] = "idle"
    /\ IF rc = 0
       THEN /\ sensor' = [sensor EXCEPT ![e].is_connected = TRUE,
                                        ![e].current_data.status = "online"]
            /\ net' = [net EXCEPT ![e] = "subscribe"]
       ELSE UNCHANGED <<sensor, net>>
    /\ UNCHANGED <<tick, display, subscribed, inbox, sent>>

\* on_connect, line 119: client.subscribe(topic_control)
SensorSubscribe(e) ==
    /\ net[e] = "subscribe"
    /\ subscribed' = subscribed \cup {e}
    /\ net' = [net EXCEPT ![e] = "idle"]
    /\ UNCHANGED <<sensor, tick, display, inbox, sent>>

\* on_disconnect: the flag, the status; the broker forgets the session
SensorOnDisconnect(e) ==
    /\ sensor[e].phase # "aborted"
    /\ sensor[e].is_connected
    /\ net[e] = "idle"
    /\ sensor' = [sensor EXCEPT ![e].is_connected = FALSE,
                                ![e].current_data.status = "offline"]
    /\ subscribed' = subscribed \ {e}
    /\ inbox' = [inbox EXCEPT ![e] = <<>>]
    /\ UNCHANGED <<tick, net, display, sent>>

\* on_message that takes every command but "enable" for "disable"
EnabledAfterAny(enabled, payload) ==
    LET command == Get(payload, "command", "") IN
    IF command = "enable" THEN TRUE ELSE FALSE

\* on_message: the new value of sensor_enabled after a control payload
EnabledAfter(enabled, payload) ==
    LET command == Get(payload, "command", "") IN
    IF command = "enable" THEN TRUE
    ELSE IF command = "disable" THEN FALSE
    ELSE enabled

\* the control payloads an observer may publish; "restart" is no command
ControlPayloads ==
    [command : {"enable", "disable", "restart"},
     device_id : Emitters \cup {"all"},
     sender : {"o1"}]

\* on_message of the emitter, the whole handler, for one message; json.loads
\* raises on a payload that is no JSON and line 169 ends the handler
SensorOnMessage(e, msg) ==
    sensor' = [sensor EXCEPT ![e] =
                  IF msg.topic # topic_control THEN @
                  ELSE IF msg.data = Garbage THEN [@ EXCEPT !.errors = @ + 1]
                  ELSE [@ EXCEPT !.sensor_enabled = EnabledAfter(@, msg.data)]]

\* the network thread of a subscribed emitter is handed a control message
\* that some observer published
SensorDeliver(e, payload) ==
    /\ sensor[e].phase # "aborted"
    /\ net[e] = "idle"
    /\ e \in subscribed
    /\ SensorOnMessage(e, [topic |-> topic_control, data |-> payload])
    /\ UNCHANGED <<tick, net, display, subscribed, inbox, sent>>

\* the network thread handles the next message the broker routed to it
SensorReceive(e) ==
    /\ net[e] = "idle"
    /\ inbox[e] # <<>>
    /\ SensorOnMessage(e, Head(inbox[e]))
    /\ inbox' = [inbox EXCEPT ![e] = Tail(@)]
    /\ UNCHANGED <<tick, net, display, subscribed, sent>>

\* handle_toggle_sensor that builds the status dict before it flips the flag
SensorToggleStale(e) ==
    /\ sensor[e].phase = "running"
    /\ sent[e][topic_state].n < MaxToggles
    /\ sensor' = [sensor EXCEPT ![e].sensor_enabled = ~@]
    /\ LET payload == StatusUpdate(e) IN
       /\ sent' = Sent(e, topic_state, payload)
       /\ inbox' = Routed(e, sensor[e].is_connected, topic_state, payload)
    /\ UNCHANGED <<tick, net, display, subscribed>>

\* handle_toggle_sensor: the flag is flipped and the status dict published
SensorToggle(e) ==
    /\ sensor[e].phase = "running"
    /\ sent[e][topic_state].n < MaxToggles
    /\ sensor' = [sensor EXCEPT ![e].sensor_enabled = ~@]
    /\ LET payload == [StatusUpdate(e) EXCEPT !.enabled = ~sensor[e].sensor_enabled] IN
       /\ sent' = Sent(e, topic_state, payload)
       /\ inbox' = Routed(e, sensor[e].is_connected, topic_state, payload)
    /\ UNCHANGED <<tick, net, display, subscribed>>

\* generate_sensor_data, lines 173-189: None when disabled, else a new dict
GeneratedData(e, t, h) ==
    IF ~sensor[e].sensor_enabled THEN None
    ELSE [temperature |-> t, humidity |-> h, sensor_id |-> e,
          status |-> IF sensor[e].is_connected THEN "online" ELSE "offline"]

\* run_sensor, lines 262-265: the loop test and the building of the dict
TickGenerate(e, t, h) ==
    /\ tick[e].pc = "loop"
    /\ sensor[e].is_running
    /\ sent[e][topic_combined].n < MaxReadings
    /\ LET data == GeneratedData(e, t, h) IN
       tick' = [tick EXCEPT ![e] = IF data = None
                                   THEN [pc |-> "loop", data |-> None]
                                   ELSE [pc |-> "assign", data |-> data]]
    /\ UNCHANGED <<sensor, net, display, subscribed, inbox, sent>>

\* generate_sensor_data, lines 191-192: self.current_data = data; from here
\* the tick's data and current_data are one object
TickAssign(e) ==
    /\ tick[e].pc = "assign"
    /\ sensor' = [sensor EXCEPT ![e].current_data = tick[e].data]
    /\ tick' = [tick EXCEPT ![e] = [pc |-> "check", data |-> None]]
    /\ UNCHANGED <<net, display, subscribed, inbox, sent>>

\* publish_data without the test of the connected flag
PublishAlways(e) == TRUE

\* publish_data, line 196: the test of the connected flag
PublishAllowed(e) == sensor[e].is_connected

\* publish_data, lines 196-197
TickCheck(e) ==
    /\ tick[e].pc = "check"
    /\ tick' = [tick EXCEPT ![e].pc = IF PublishAllowed(e) THEN "send" ELSE "loop"]
    /\ UNCHANGED <<sensor, net, display, subscribed, inbox, sent>>

\* publish_data, line 218, and the sleep of run_sensor
TickSend(e) ==
    /\ tick[e].pc = "send"
    /\ sent' = Sent(e, topic_combined, sensor[e].current_data)
    /\ inbox' = Routed(e, sensor[e].is_connected, topic_combined,
                       sensor[e].current_data)
    /\ tick' = [tick EXCEPT ![e].pc = "loop"]
    /\ UNCHANGED <<sensor, net, display, subscribed>>

\* ------------------------------------------------------------- the observer

\* the network thread is outside on_message; msg is the last message handled
NoHandling == [msg |-> None, pc |-> "idle"]

InitSensorData ==
    [temperature |-> [value |-> 0, unit |-> "C", timestamp |-> None],
     humidity |-> [value |-> 0, unit |-> "%", timestamp |-> None],
     combined |-> None, sensor_states |-> <<>>]

\* handle_temperature_data and handle_humidity_data build the same entry; a
\* KeyError on a missing key leaves the call before the assignment
SingleEntry(data) ==
    [value |-> data.value, unit |-> data.unit, timestamp |-> data.timestamp,
     sensor_id |-> Get(data, "sensor_id", "unknown")]

SingleEntryRaises(data) == ~({"value", "unit", "timestamp"} \subseteq DOMAIN data)

HandleTemperatureData(d, data) ==
    IF SingleEntryRaises(data) THEN [d |-> d, raised |-> TRUE]
    ELSE [d |-> [d EXCEPT !.sensor_data.temperature = SingleEntry(data)],
          raised |-> FALSE]

HandleHumidityData(d, data) ==
    IF SingleEntryRaises(data) THEN [d |-> d, raised |-> TRUE]
    ELSE [d |-> [d EXCEPT !.sensor_data.humidity = SingleEntry(data)],
          raised |-> FALSE]

\* the device list and the default state, with the default given to every
\* device on its first reading, whether or not the store has an entry for it
WithDeviceReset(d, sensor_id) ==
    IF sensor_id \in Range(d.connected_devices) THEN d
    ELSE [d EXCEPT
            !.connected_devices = Append(@, sensor_id),
            !.sensor_data.sensor_states = Put(@, sensor_id, TRUE)]

\* a sensor_id that is a JSON array: a list, which Python compares and
\* appends but cannot hash
ListId == "[x]"
Unhashable(sensor_id) == sensor_id = ListId

\* handle_combined_data, line 228: the test on the dict raises TypeError for
\* an id that cannot be hashed, after line 225 has appended it
WithDeviceRaises(d, sensor_id) ==
    sensor_id \notin Range(d.connected_devices) /\ Unhashable(sensor_id)

\* handle_combined_data, lines 223-229: the device list and the default state
WithDevice(d, sensor_id) ==
    IF sensor_id \in Range(d.connected_devices) THEN d
    ELSE [d EXCEPT
            !.connected_devices = Append(@, sensor_id),
            !.sensor_data.sensor_states =
                IF Unhashable(sensor_id) \/ sensor_id \in DOMAIN @ THEN @
                ELSE Put(@, sensor_id, TRUE)]

\* handle_combined_data that takes the humidity value from the wrong field
HandleCombinedDataMixed(d, data) ==
    [d |-> WithDevice([d EXCEPT !.sensor_data.combined = data,
                                !.sensor_data.temperature.value = data.temperature,
                                !.sensor_data.humidity.value = data.temperature],
                      Get(data, "sensor_id", "unknown")),
     raised |-> FALSE]

\* handle_combined_data: the observer's record after the call, and whether a
\* KeyError left the call at data["temperature"] or data["humidity"]
HandleCombinedData(d, data) ==
    LET d1 == [d EXCEPT !.sensor_data.combined = data] IN
    IF "temperature" \notin DOMAIN data THEN [d |-> d1, raised |-> TRUE]
    ELSE LET d2 == [d1 EXCEPT !.sensor_data.temperature.value = data.temperature] IN
         IF "humidity" \notin DOMAIN data THEN [d |-> d2, raised |-> TRUE]
         ELSE LET d3 == [d2 EXCEPT !.sensor_data.humidity.value = data.humidity] IN
              [d |-> WithDevice(d3, Get(data, "sensor_id", "unknown")),
               raised |-> WithDeviceRaises(d3, Get(data, "sensor_id", "unknown"))]

\* handle_control_data that keeps the value of a device it already knows
HandleControlDataKeep(d, data) ==
    LET enabled == Get(data, "enabled", FALSE)
        device_id == Get(Get(data, "data", <<>>), "sensor_id", "all")
    IN  [d |-> [d EXCEPT !.sensor_data.sensor_states =
                    IF device_id \in DOMAIN @ THEN @
                    ELSE Put(@, device_id, enabled)],
         raised |-> FALSE]

\* handle_control_data that never enables a device it holds as disabled
HandleControlDataSticky(d, data) ==
    LET enabled == Get(data, "enabled", FALSE)
        device_id == Get(Get(data, "data", <<>>), "sensor_id", "all")
    IN  [d |-> [d EXCEPT !.sensor_data.sensor_states =
                    Put(@, device_id,
                        IF device_id \in DOMAIN @ THEN @[device_id] /\ enabled
                        ELSE enabled)],
         raised |-> FALSE]

\* handle_control_data that flips the value of a device it already knows
HandleControlDataToggle(d, data) ==
    LET enabled == Get(data, "enabled", FALSE)
        device_id == Get(Get(data, "data", <<>>), "sensor_id", "all")
    IN  [d |-> [d EXCEPT !.sensor_data.sensor_states =
                    Put(@, device_id,
                        IF device_id \in DOMAIN @ THEN ~@[device_id]
                        ELSE enabled)],
         raised |-> FALSE]

\* handle_control_data: the state message of an emitter
HandleControlData(d, data) ==
    LET enabled == Get(data, "enabled", FALSE)
        device_id == Get(Get(data, "data", <<>>), "sensor_id", "all")
    IN  [d |-> [d EXCEPT !.sensor_data.sensor_states = Put(@, device_id, enabled)],
         raised |-> FALSE]

\* on_message that counts the message before it decodes the payload
OnMessageResultCounted(d, msg) ==
    LET d0 == [d EXCEPT !.message_count = @ + 1] IN
    IF msg.data = Garbage
    THEN [d |-> [d0 EXCEPT !.undecoded = @ + 1], raised |-> TRUE]
    ELSE IF msg.topic = topic_temperature THEN HandleTemperatureData(d0, msg.data)
    ELSE IF msg.topic = topic_humidity THEN HandleHumidityData(d0, msg.data)
    ELSE IF msg.topic = topic_combined THEN HandleCombinedData(d0, msg.data)
    ELSE IF msg.topic = topic_state THEN HandleControlData(d0, msg.data)
    ELSE [d |-> d0, raised |-> FALSE]

\* on_message, lines 161-173: json.loads, which raises on a payload that is
\* no JSON (line 191 ends the handler), then the count and the handler of
\* the topic, run on the observer's record d
OnMessageResult(d, msg) ==
    LET d0 == [d EXCEPT !.message_count = @ + 1] IN
    IF msg.data = Garbage
    THEN [d |-> [d EXCEPT !.undecoded = @ + 1], raised |-> TRUE]
    ELSE IF msg.topic = topic_temperature THEN HandleTemperatureData(d0, msg.data)
    ELSE IF msg.topic = topic_humidity THEN HandleHumidityData(d0, msg.data)
    ELSE IF msg.topic = topic_combined THEN HandleCombinedData(d0, msg.data)
    ELSE IF msg.topic = topic_state THEN HandleControlData(d0, msg.data)
    ELSE [d |-> d0, raised |-> FALSE]

\* on_message of the observer, the whole handler, for one parsed message,
\* with no other thread of the observer running in between
DisplayOnMessage(o, msg) ==
    display' = [display EXCEPT ![o] = OnMessageResult(@, msg).d]

\* the local update that expands "all" to every device id there is
LocalUpdateEveryId(d, command, device_id) ==
    IF device_id # "all"
    THEN [d EXCEPT !.sensor_data.sensor_states =
                        Put(@, device_id, command = "enable")]
    ELSE [d EXCEPT !.sensor_data.sensor_states =
                        [x \in DOMAIN @ \cup DeviceIds |->
                            IF x \in DeviceIds THEN command = "enable" ELSE @[x]]]

\* handle_control_device, lines 103-110: the local update of the states
LocalUpdate(d, command, device_id) ==
    IF device_id # "all"
    THEN [d EXCEPT !.sensor_data.sensor_states =
                        Put(@, device_id, command = "enable")]
    ELSE [d EXCEPT !.sensor_data.sensor_states =
                        [x \in DOMAIN @ \cup Range(d.connected_devices) |->
                            IF x \in Range(d.connected_devices)
                            THEN command = "enable" ELSE @[x]]]

\* send_control_command: the payload published on the control topic
ControlData(o, command, device_id) ==
    [command |-> command, device_id |-> device_id, sender |-> o]

\* handle_control_device that updates the store only for a command that
\* send_control_command published
DisplayControlDeviceGated(o, command, device_id) ==
    /\ display[o].phase = "running"
    /\ display[o].is_connected => sent[o][topic_control].n < MaxCmds
    /\ IF command \in {"enable", "disable"} /\ display[o].is_connected
       THEN /\ sent' = Sent(o, topic_control, ControlData(o, command, device_id))
            /\ inbox' = Routed(o, TRUE, topic_control,
                               ControlData(o, command, device_id))
            /\ display' = [display EXCEPT ![o] = LocalUpdate(@, command, device_id)]
       ELSE UNCHANGED <<display, sent, inbox>>
    /\ UNCHANGED <<sensor, tick, net, subscribed>>

\* handle_control_device, the whole handler
DisplayControlDevice(o, command, device_id) ==
    /\ display[o].phase = "running"
    /\ display[o].is_connected => sent[o][topic_control].n < MaxCmds
    /\ IF command \in {"enable", "disable"}
       THEN /\ IF display[o].is_connected
               THEN /\ sent' = Sent(o, topic_control,
                                    ControlData(o, command, device_id))
                    /\ inbox' = Routed(o, TRUE, topic_control,
                                       ControlData(o, command, device_id))
               ELSE UNCHANGED <<sent, inbox>>
            /\ display' = [display EXCEPT ![o] = LocalUpdate(@, command, device_id)]
       ELSE UNCHANGED <<display, sent, inbox>>
    /\ UNCHANGED <<sensor, tick, net, subscribed>>

\* start(): connect() returned True and the web server runs
DisplayStart(o) ==
    /\ display[o].phase = "init"
    /\ display[o].is_connected
    /\ display' = [display EXCEPT ![o].phase = "running"]
    /\ UNCHANGED <<sensor, tick, net, subscribed, inbox, sent>>

\* start(): connect() returned False, start returns and the process ends
DisplayStartAbort(o) ==
    /\ display[o].phase = "init"
    /\ ~display[o].is_connected
    /\ display' = [display EXCEPT ![o].phase = "aborted"]
    /\ UNCHANGED <<sensor, tick, net, subscribed, inbox, sent>>

\* on_connect of the observer: the flag and the subscriptions
DisplayOnConnect(o, rc) ==
    /\ display[o].phase # "aborted"
    /\ ~display[o].is_connected
    /\ IF rc = 0
       THEN /\ display' = [display EXCEPT ![o].is_connected = TRUE]
            /\ subscribed' = subscribed \cup {o}
       ELSE UNCHANGED <<display, subscribed>>
    /\ UNCHANGED <<sensor, tick, net, inbox, sent>>

\* on_disconnect that also forgets the devices seen on the lost connection
DisplayOnDisconnectClears(o) ==
    /\ display[o].phase # "aborted"
    /\ display[o].is_connected
    /\ display' = [display EXCEPT ![o].is_connected = FALSE,
                                  ![o].connected_devices = <<>>,
                                  ![o].sensor_data.sensor_states = <<>>]
    /\ subscribed' = subscribed \ {o}
    /\ inbox' = [inbox EXCEPT ![o] = <<>>]
    /\ UNCHANGED <<sensor, tick, net, sent>>

\* on_disconnect of the observer; the broker forgets the session
DisplayOnDisconnect(o) ==
    /\ display[o].phase # "aborted"
    /\ display[o].is_connected
    /\ display' = [display EXCEPT ![o].is_connected = FALSE]
    /\ subscribed' = subscribed \ {o}
    /\ inbox' = [inbox EXCEPT ![o] = <<>>]
    /\ UNCHANGED <<sensor, tick, net, sent>>

\* the readings and the state messages the bus may hand to an observer
ReadingPayloads ==
    { [temperature |-> v[1], humidity |-> v[2], sensor_id |-> id,
       status |-> "online"] : v \in {<<20, 40>>, <<35, 80>>}, id \in DeviceIds }

StatePayloads ==
    [connected : {TRUE}, running : {TRUE}, enabled : BOOLEAN,
     data : {InitCurrentData} \cup
            [temperature : {20}, humidity : {40}, sensor_id : DeviceIds,
             status : {"online"}]]

\* a value of one kind on its own topic; no emitter of this repository
\* publishes one, the observer subscribes to both topics
TemperaturePayloads ==
    [value : {35}, unit : {"C"}, timestamp : {Str("t")}, sensor_id : {"A"}]

HumidityPayloads ==
    [value : {80}, unit : {"%"}, timestamp : {Str("t")}, sensor_id : {"A"}]

BusMessages ==
    [topic : {topic_combined}, data : ReadingPayloads]
        \cup [topic : {topic_state}, data : StatePayloads]
        \cup [topic : {topic_temperature}, data : TemperaturePayloads]
        \cup [topic : {topic_humidity}, data : HumidityPayloads]

\* the network thread of a subscribed observer is handed a message that
\* some emitter published
DisplayDeliver(o, msg) ==
    /\ display[o].phase # "aborted"
    /\ o \in subscribed
    /\ display[o].message_count < MaxMsgs
    /\ DisplayOnMessage(o, msg)
    /\ UNCHANGED <<sensor, tick, net, subscribed, inbox, sent>>

\* the network thread handles the next message the broker routed to it
DisplayReceive(o) ==
    /\ inbox[o] # <<>>
    /\ DisplayOnMessage(o, Head(inbox[o]))
    /\ inbox' = [inbox EXCEPT ![o] = Tail(@)]
    /\ UNCHANGED <<sensor, tick, net, subscribed, sent>>

Init ==
    /\ sensor = [e \in Emitters |->
                    [phase |-> "init", is_connected |-> FALSE,
                     is_running |-> FALSE, sensor_enabled |-> TRUE,
                     current_data |-> InitCurrentData, errors |-> 0]]
    /\ tick = [e \in Emitters |-> [pc |-> "off", data |-> None]]
    /\ net = [e \in Emitters |-> "idle"]
    /\ display = [o \in Observers |->
                    [phase |-> "init", is_connected |-> FALSE,
                     sensor_data |-> InitSensorData,
                     message_count |-> 0, connected_devices |-> <<>>,
                     handling |-> NoHandling, web |-> None,
                     emitted |-> None, undecoded |-> 0]]
    /\ subscribed = {}
    /\ inbox = [c \in Clients |-> <<>>]
    /\ sent = [c \in Clients |->
                [t \in {topic_combined, topic_control, topic_state} |-> NoneSent]]

\* one emitter and the bus around it: control payloads arrive from the bus
EmitterNext ==
    \E e \in {"A"} :
        \/ SensorStart(e)
        \/ SensorStartAbort(e)
        \/ \E rc \in {0, 5} : SensorOnConnect(e, rc)
        \/ SensorSubscribe(e)
        \/ SensorOnDisconnect(e)
        \/ \E payload \in ControlPayloads : SensorDeliver(e, payload)
        \/ SensorToggle(e)
        \/ \E t \in Temps, h \in Hums : TickGenerate(e, t, h)
        \/ TickAssign(e)
        \/ TickCheck(e)
        \/ TickSend(e)

Spec == Init /\ [][EmitterNext]_vars

\* one observer and the bus around it: readings and state messages arrive
\* from the bus, commands from the dashboard
ObserverNext ==
    \E o \in {"o1"} :
        \/ DisplayStart(o)
        \/ DisplayStartAbort(o)
        \/ \E rc \in {0, 5} : DisplayOnConnect(o, rc)
        \/ DisplayOnDisconnect(o)
        \/ \E msg \in BusMessages : DisplayDeliver(o, msg)
        \/ \E command \in {"enable", "disable", "restart"},
              device_id \in DeviceIds \cup {"all"} :
                DisplayControlDevice(o, command, device_id)

ObsSpec == Init /\ [][ObserverNext]_vars

\* The system after start-up: the emitters E and the observers O have
\* connected, subscribed and started, the other processes have not been
\* started; the messages travel through the broker. The connections stay up
\* and every reading has the same values.
SysInitOf(E, O) ==
    /\ sensor = [e \in Emitters |->
                    IF e \in E
                    THEN [phase |-> "running", is_connected |-> TRUE,
                          is_running |-> TRUE, sensor_enabled |-> TRUE,
                          current_data |-> [InitCurrentData EXCEPT !.status = "online"],
                          errors |-> 0]
                    ELSE [phase |-> "init", is_connected |-> FALSE,
                          is_running |-> FALSE, sensor_enabled |-> TRUE,
                          current_data |-> InitCurrentData, errors |-> 0]]
    /\ tick = [e \in Emitters |->
                    [pc |-> IF e \in E THEN "loop" ELSE "off", data |-> None]]
    /\ net = [e \in Emitters |-> "idle"]
    /\ display = [o \in Observers |->
                    [phase |-> IF o \in O THEN "running" ELSE "init",
                     is_connected |-> o \in O,
                     sensor_data |-> InitSensorData,
                     message_count |-> 0, connected_devices |-> <<>>,
                     handling |-> NoHandling, web |-> None,
                     emitted |-> None, undecoded |-> 0]]
    /\ subscribed = E \cup O
    /\ inbox = [c \in Clients |-> <<>>]
    /\ sent = [c \in Clients |->
                [t \in {topic_combined, topic_control, topic_state} |-> NoneSent]]

SysNextOf(E, O) ==
    \/ \E e \in E :
        \/ SensorReceive(e)
        \/ SensorToggle(e)
        \/ TickGenerate(e, 20, 40)
        \/ TickAssign(e)
        \/ TickCheck(e)
        \/ TickSend(e)
    \/ \E o \in O :
        \/ DisplayReceive(o)
        \/ \E command \in {"enable", "disable"}, device_id \in Emitters \cup {"all"} :
                DisplayControlDevice(o, command, device_id)

\* two emitters and one observer
SysSpec == SysInitOf(Emitters, {"o1"}) /\ [][SysNextOf(Emitters, {"o1"})]_vars

\* the first reading of emitter e in the system specifications
FirstReading(e) ==
    [temperature |-> 20, humidity |-> 40, sensor_id |-> e, status |-> "online"]

\* One emitter and two observers, all started and connected, after the
\* emitter's first reading has been handled by both observers: both know
\* the device.
PairInit ==
    /\ sensor = [e \in Emitters |->
                    IF e = "A"
                    THEN [phase |-> "running", is_connected |-> TRUE,
                          is_running |-> TRUE, sensor_enabled |-> TRUE,
                          current_data |-> FirstReading(e), errors |-> 0]
                    ELSE [phase |-> "init", is_connected |-> FALSE,
                          is_running |-> FALSE, sensor_enabled |-> TRUE,
                          current_data |-> InitCurrentData, errors |-> 0]]
    /\ tick = [e \in Emitters |->
                    [pc |-> IF e = "A" THEN "loop" ELSE "off", data |-> None]]
    /\ net = [e \in Emitters |-> "idle"]
    /\ display = [o \in Observers |->
                    [phase |-> "running", is_connected |-> TRUE,
                     sensor_data |->
                        [InitSensorData EXCEPT
                            !.temperature.value = 20,
                            !.humidity.value = 40,
                            !.combined = FirstReading("A"),
                            !.sensor_states = [x \in {"A"} |-> TRUE]],
                     message_count |-> 1, connected_devices |-> <<"A">>,
                     handling |-> NoHandling, web |-> None,
                     emitted |-> None, undecoded |-> 0]]
    /\ subscribed = {"A"} \cup Observers
    /\ inbox = [c \in Clients |-> <<>>]
    /\ sent = [c \in Clients |->
                [t \in {topic_combined, topic_control, topic_state} |->
                    IF c = "A" /\ t = topic_combined
                    THEN [n |-> 1, last |-> FirstReading("A")]
                    ELSE NoneSent]]

PairSpec == PairInit /\ [][SysNextOf({"A"}, Observers)]_vars

\* the start-up of PairSpec without the first reading: PairInit is a state
\* of it
PairStartSpec ==
    SysInitOf({"A"}, Observers) /\ [][SysNextOf({"A"}, Observers)]_vars

PairInitUnreached == ~PairInit

\* One emitter that has started and has just lost its connection: the
\* state after SensorOnDisconnect of a running emitter that has published
\* nothing yet. Every connection made from here is a reconnection.
ReconnectInit ==
    /\ sensor = [e \in Emitters |->
                    [phase |-> IF e = "A" THEN "running" ELSE "init",
                     is_connected |-> FALSE,
                     is_running |-> e = "A", sensor_enabled |-> TRUE,
                     current_data |-> InitCurrentData, errors |-> 0]]
    /\ tick = [e \in Emitters |->
                    [pc |-> IF e = "A" THEN "loop" ELSE "off", data |-> None]]
    /\ net = [e \in Emitters |-> "idle"]
    /\ display = [o \in Observers |->
                    [phase |-> "init", is_connected |-> FALSE,
                     sensor_data |-> InitSensorData,
                     message_count |-> 0, connected_devices |-> <<>>,
                     handling |-> NoHandling, web |-> None,
                     emitted |-> None, undecoded |-> 0]]
    /\ subscribed = {}
    /\ inbox = [c \in Clients |-> <<>>]
    /\ sent = [c \in Clients |->
                [t \in {topic_combined, topic_control, topic_state} |-> NoneSent]]

ReconnectNext ==
    \E e \in {"A"} :
        \/ \E rc \in {0, 5} : SensorOnConnect(e, rc)
        \/ SensorSubscribe(e)
        \/ SensorOnDisconnect(e)
        \/ \E payload \in ControlPayloads : SensorDeliver(e, payload)
        \/ SensorToggle(e)
        \/ \E t \in Temps, h \in Hums : TickGenerate(e, t, h)
        \/ TickAssign(e)
        \/ TickCheck(e)
        \/ TickSend(e)

ReconnectSpec == ReconnectInit /\ [][ReconnectNext]_vars

ReconnectInitUnreached == ~ReconnectInit

\* ------------------------------------------------- the observer's threads
\* The network thread runs on_message statement by statement while a handler
\* of the web server runs on a thread of its own; the class takes no lock.

\* _serialize_sensor_data, lines 278-282: a timestamp stored from a message
\* is a string, which has no isoformat, and the call raises
SerializeRaises(d) ==
    \/ d.sensor_data.temperature.timestamp # None
    \/ d.sensor_data.humidity.timestamp # None

\* _serialize_sensor_data, line 274: dict.copy() copies the top level only.
\* The copy binds the value of "combined"; the dicts under "temperature",
\* "humidity" and "sensor_states" are the store's own objects
Serialized(d) ==
    [combined |-> d.sensor_data.combined,
     temperature |-> [shared |-> TRUE],
     humidity |-> [shared |-> TRUE]]

\* what the object s returned by _serialize_sensor_data shows when it is
\* read while the observer's record is d
Content(d, s) ==
    [combined |-> s.combined,
     temperature |-> IF s.temperature.shared THEN d.sensor_data.temperature
                     ELSE s.temperature.val,
     humidity |-> IF s.humidity.shared THEN d.sensor_data.humidity
                  ELSE s.humidity.val,
     sensor_states |-> d.sensor_data.sensor_states]

\* get_statistics: the count and the list of devices
Stats(d) ==
    [message_count |-> d.message_count, device_list |-> d.connected_devices]

\* the argument of emit, read when the call encodes it
Emitted(d, s, by) ==
    [by |-> by, data |-> Content(d, s), stats |-> Stats(d)]

\* a thread that holds the object returned by _serialize_sensor_data
Holding(t) == t # None /\ t.pc = "emit"

\* handle_temperature_data and handle_humidity_data bind a new dict in the
\* store: an object returned earlier keeps the dict that was there
Rebound(d, topic) ==
    LET w == d.web IN
    IF ~Holding(w) THEN w
    ELSE IF topic = topic_temperature /\ w.snapshot.temperature.shared
    THEN [w EXCEPT !.snapshot.temperature =
                        [shared |-> FALSE, val |-> d.sensor_data.temperature]]
    ELSE IF topic = topic_humidity /\ w.snapshot.humidity.shared
    THEN [w EXCEPT !.snapshot.humidity =
                        [shared |-> FALSE, val |-> d.sensor_data.humidity]]
    ELSE w

\* the network thread after on_message returned or raised
Handled(msg) == [msg |-> msg, pc |-> "idle"]

\* on_message, lines 159-163: the message is parsed and counted
OnMessageCount(o, msg) ==
    /\ display[o].phase # "aborted"
    /\ o \in subscribed
    /\ display[o].message_count < MaxMsgs
    /\ display[o].handling.pc = "idle"
    /\ display' = [display EXCEPT
                    ![o].message_count = @ + 1,
                    ![o].handling = [msg |-> msg, pc |-> "dispatch"]]
    /\ UNCHANGED <<sensor, tick, net, subscribed, inbox, sent>>

\* on_message, lines 166-173: the handlers of the single-value topics and
\* of the state topic make one assignment; handle_combined_data starts with
\* line 216
OnMessageDispatch(o) ==
    LET d == display[o]
        msg == d.handling.msg
        r == IF msg.topic = topic_temperature
                THEN HandleTemperatureData(d, msg.data)
             ELSE IF msg.topic = topic_humidity
                THEN HandleHumidityData(d, msg.data)
             ELSE HandleControlData(d, msg.data)
    IN  /\ d.handling.pc = "dispatch"
        /\ display' = [display EXCEPT ![o] =
                IF msg.topic = topic_combined
                THEN [d EXCEPT !.sensor_data.combined = msg.data,
                               !.handling.pc = "temperature"]
                ELSE [r.d EXCEPT
                        !.handling = IF r.raised THEN Handled(msg)
                                     ELSE [@ EXCEPT !.pc = "serialize"],
                        !.web = IF r.raised THEN @ ELSE Rebound(d, msg.topic)]]
        /\ UNCHANGED <<sensor, tick, net, subscribed, inbox, sent>>

\* handle_combined_data, line 219
CombinedTemperature(o) ==
    LET d == display[o]
        data == d.handling.msg.data
    IN  /\ d.handling.pc = "temperature"
        /\ display' = [display EXCEPT ![o] =
                IF "temperature" \notin DOMAIN data
                THEN [d EXCEPT !.handling = Handled(d.handling.msg)]
                ELSE [d EXCEPT !.sensor_data.temperature.value = data.temperature,
                               !.handling.pc = "humidity"]]
        /\ UNCHANGED <<sensor, tick, net, subscribed, inbox, sent>>

\* handle_combined_data, line 220
CombinedHumidity(o) ==
    LET d == display[o]
        data == d.handling.msg.data
    IN  /\ d.handling.pc = "humidity"
        /\ display' = [display EXCEPT ![o] =
                IF "humidity" \notin DOMAIN data
                THEN [d EXCEPT !.handling = Handled(d.handling.msg)]
                ELSE [d EXCEPT !.sensor_data.humidity.value = data.humidity,
                               !.handling.pc = "listed"]]
        /\ UNCHANGED <<sensor, tick, net, subscribed, inbox, sent>>

\* handle_combined_data, lines 223-225: only this thread writes the list
CombinedListed(o) ==
    LET d == display[o]
        sensor_id == Get(d.handling.msg.data, "sensor_id", "unknown")
    IN  /\ d.handling.pc = "listed"
        /\ display' = [display EXCEPT ![o] =
                IF sensor_id \in Range(d.connected_devices)
                THEN [d EXCEPT !.handling.pc = "serialize"]
                ELSE [d EXCEPT !.connected_devices = Append(@, sensor_id),
                               !.handling.pc = "state_test"]]
        /\ UNCHANGED <<sensor, tick, net, subscribed, inbox, sent>>

\* handle_combined_data, line 228: the test of the store's keys
CombinedStateTest(o) ==
    LET d == display[o]
        sensor_id == Get(d.handling.msg.data, "sensor_id", "unknown")
    IN  /\ d.handling.pc = "state_test"
        /\ display' = [display EXCEPT ![o].handling.pc =
                IF sensor_id \in DOMAIN d.sensor_data.sensor_states
                THEN "serialize" ELSE "state_set"]
        /\ UNCHANGED <<sensor, tick, net, subscribed, inbox, sent>>

\* handle_combined_data, line 229: the default state
CombinedStateSet(o) ==
    LET d == display[o]
        sensor_id == Get(d.handling.msg.data, "sensor_id", "unknown")
    IN  /\ d.handling.pc = "state_set"
        /\ display' = [display EXCEPT
                ![o].sensor_data.sensor_states = Put(@, sensor_id, TRUE),
                ![o].handling.pc = "serialize"]
        /\ UNCHANGED <<sensor, tick, net, subscribed, inbox, sent>>

\* on_message, line 179; an exception ends the handler at line 193
OnMessageSerialize(o) ==
    LET d == display[o] IN
    /\ d.handling.pc = "serialize"
    /\ display' = [display EXCEPT ![o].handling =
            IF SerializeRaises(d) THEN Handled(d.handling.msg)
            ELSE [msg |-> d.handling.msg, pc |-> "emit",
                  snapshot |-> Serialized(d),
                  taken |-> Content(d, Serialized(d))]]
    /\ UNCHANGED <<sensor, tick, net, subscribed, inbox, sent>>

\* on_message, lines 182-187
OnMessageEmit(o) ==
    LET d == display[o] IN
    /\ d.handling.pc = "emit"
    /\ display' = [display EXCEPT
            ![o].emitted = Emitted(d, d.handling.snapshot, "message"),
            ![o].handling = Handled(d.handling.msg)]
    /\ UNCHANGED <<sensor, tick, net, subscribed, inbox, sent>>

\* handle_connect and handle_get_status, the call of _serialize_sensor_data;
\* when it raises the handler ends and nothing is emitted
HandleConnect(o) ==
    LET d == display[o] IN
    /\ d.phase = "running"
    /\ d.web = None
    /\ ~SerializeRaises(d)
    /\ display' = [display EXCEPT ![o].web =
            [op |-> "status", pc |-> "emit", snapshot |-> Serialized(d),
             taken |-> Content(d, Serialized(d))]]
    /\ UNCHANGED <<sensor, tick, net, subscribed, inbox, sent>>

\* the emit that ends handle_connect, handle_get_status and
\* handle_control_device
WebEmit(o) ==
    LET d == display[o] IN
    /\ Holding(d.web)
    /\ display' = [display EXCEPT
            ![o].emitted = Emitted(d, d.web.snapshot, d.web.op),
            ![o].web = None]
    /\ UNCHANGED <<sensor, tick, net, subscribed, inbox, sent>>

\* handle_control_device, lines 97-101: the command is published
ControlPublish(o, command, device_id) ==
    LET d == display[o] IN
    /\ d.phase = "running"
    /\ d.web = None
    /\ command \in {"enable", "disable"}
    /\ d.is_connected => sent[o][topic_control].n < MaxCmds
    /\ IF d.is_connected
       THEN /\ sent' = Sent(o, topic_control, ControlData(o, command, device_id))
            /\ inbox' = Routed(o, TRUE, topic_control,
                               ControlData(o, command, device_id))
       ELSE UNCHANGED <<sent, inbox>>
    /\ display' = [display EXCEPT ![o].web =
            [op |-> "control", pc |-> "update", command |-> command,
             device_id |-> device_id, i |-> 1]]
    /\ UNCHANGED <<sensor, tick, net, subscribed>>

\* handle_control_device, lines 103-110: the assignment for one device, or
\* one round of the loop over connected_devices
ControlUpdate(o) ==
    LET d == display[o]
        w == d.web
    IN  /\ w # None
        /\ w.pc = "update"
        /\ display' = [display EXCEPT ![o] =
                IF w.device_id # "all"
                THEN [d EXCEPT !.sensor_data.sensor_states =
                                    Put(@, w.device_id, w.command = "enable"),
                               !.web.pc = "serialize"]
                ELSE IF w.i <= Len(d.connected_devices)
                THEN [d EXCEPT !.sensor_data.sensor_states =
                                    Put(@, d.connected_devices[w.i],
                                        w.command = "enable"),
                               !.web.i = @ + 1]
                ELSE [d EXCEPT !.web.pc = "serialize"]]
        /\ UNCHANGED <<sensor, tick, net, subscribed, inbox, sent>>

\* handle_control_device, line 113; when it raises the handler ends
ControlSerialize(o) ==
    LET d == display[o]
        w == d.web
    IN  /\ w # None
        /\ w.pc = "serialize"
        /\ display' = [display EXCEPT ![o].web =
                IF SerializeRaises(d) THEN None
                ELSE [op |-> "control", pc |-> "emit",
                      snapshot |-> Serialized(d),
                      taken |-> Content(d, Serialized(d))]]
        /\ UNCHANGED <<sensor, tick, net, subscribed, inbox, sent>>

\* the messages handed to the observer in the specification of its threads
ThreadMessages ==
    { m \in BusMessages :
        \/ m.topic \in {topic_temperature, topic_humidity}
        \/ m.topic = topic_state /\ Get(m.data.data, "sensor_id", "all") = "C"
        \/ /\ m.topic = topic_combined
           /\ m.data.temperature = 20
           /\ m.data.sensor_id \in {"A", "C"} }

\* The observer after start-up, connected and subscribed, no emitter started
ThreadInit == SysInitOf({}, {"o1"})

ThreadNext ==
    \E o \in {"o1"} :
        \/ \E msg \in ThreadMessages : OnMessageCount(o, msg)
        \/ OnMessageDispatch(o)
        \/ CombinedTemperature(o)
        \/ CombinedHumidity(o)
        \/ CombinedListed(o)
        \/ CombinedStateTest(o)
        \/ CombinedStateSet(o)
        \/ OnMessageSerialize(o)
        \/ OnMessageEmit(o)
        \/ HandleConnect(o)
        \/ WebEmit(o)
        \/ \E command \in {"enable", "disable"}, device_id \in {"C", "all"} :
                ControlPublish(o, command, device_id)
        \/ ControlUpdate(o)
        \/ ControlSerialize(o)

ThreadSpec == ThreadInit /\ [][ThreadNext]_vars

\* ThreadInit is a state of ObsSpec
ThreadInitUnreached == ~ThreadInit

\* --------------------------------------------------- payloads to give up on
\* An emitter and an observer, both started and connected, are handed the
\* payloads of the bus, among them payloads that are no JSON and readings
\* that lack a field.

\* readings that parse and lack the temperature, the humidity or both
MalformedReadings ==
    { [humidity |-> 80, sensor_id |-> "B", status |-> "online"],
      [temperature |-> 35, sensor_id |-> "B", status |-> "online"],
      [sensor_id |-> "B", status |-> "online"],
      [temperature |-> 35, humidity |-> 80, sensor_id |-> ListId,
       status |-> "online"] }

DropMessages ==
    { m \in BusMessages :
        \/ m.topic = topic_combined /\ m.data.sensor_id = "A"
        \/ m.topic = topic_state /\ Get(m.data.data, "sensor_id", "all") = "A" }
        \cup [topic : {topic_combined}, data : MalformedReadings]

GarbageMessages == [topic : {topic_combined, topic_state}, data : {Garbage}]

DropInit == SysInitOf({"A"}, {"o1"})

DropNext ==
    \/ \E e \in {"A"} :
        \/ \E payload \in ControlPayloads : SensorDeliver(e, payload)
        \/ sensor[e].errors < MaxErrs /\ SensorDeliver(e, Garbage)
    \/ \E o \in {"o1"} :
        \/ \E msg \in DropMessages : DisplayDeliver(o, msg)
        \/ \E msg \in GarbageMessages :
                display[o].undecoded < MaxErrs /\ DisplayDeliver(o, msg)

DropSpec == DropInit /\ [][DropNext]_vars

\* ------------------------------------------------------ both life cycles
\* One emitter and one observer from construction on: either start-up may
\* fail, the connections come and go, and the messages travel through the
\* broker. Every reading has the same values and every command of the
\* dashboard is "disable" for A.
LifeNext ==
    \/ \E e \in {"A"} :
        \/ SensorStart(e)
        \/ SensorStartAbort(e)
        \/ \E rc \in {0, 5} : SensorOnConnect(e, rc)
        \/ SensorSubscribe(e)
        \/ SensorOnDisconnect(e)
        \/ SensorReceive(e)
        \/ SensorToggle(e)
        \/ TickGenerate(e, 20, 40)
        \/ TickAssign(e)
        \/ TickCheck(e)
        \/ TickSend(e)
    \/ \E o \in {"o1"} :
        \/ DisplayStart(o)
        \/ DisplayStartAbort(o)
        \/ \E rc \in {0, 5} : DisplayOnConnect(o, rc)
        \/ DisplayOnDisconnect(o)
        \/ DisplayReceive(o)
        \/ DisplayControlDevice(o, "disable", "A")

LifeSpec == Init /\ [][LifeNext]_vars

\* ------------------------------------------------- the emitter's shutdown

\* start(), lines 288-289: the sensor thread is created and started; its
\* first statement has not run yet
SensorThreadStart(e) ==
    /\ sensor[e].phase = "init"
    /\ sensor[e].is_connected
    /\ sensor' = [sensor EXCEPT ![e].phase = "running"]
    /\ tick' = [tick EXCEPT ![e].pc = "begin"]
    /\ UNCHANGED <<net, display, subscribed, inbox, sent>>

\* run_sensor, line 259, on the sensor thread: self.is_running = True
RunSensorBegin(e) ==
    /\ tick[e].pc = "begin"
    /\ sensor' = [sensor EXCEPT ![e].is_running = TRUE]
    /\ tick' = [tick EXCEPT ![e].pc = "loop"]
    /\ UNCHANGED <<net, display, subscribed, inbox, sent>>

\* run_sensor, line 262: the loop test fails and the thread ends
RunSensorEnd(e) ==
    /\ tick[e].pc = "loop"
    /\ ~sensor[e].is_running
    /\ tick' = [tick EXCEPT ![e].pc = "off"]
    /\ UNCHANGED <<sensor, net, display, subscribed, inbox, sent>>

\* stop(), lines 295-298, on the main thread: is_running = False, then
\* disconnect(): loop_stop() ends the network thread and client.disconnect()
\* closes the session.  Whether the client still calls on_disconnect once
\* its loop is stopped is left to the client library: both outcomes.
SensorStop(e) ==
    /\ sensor[e].phase = "running"
    /\ net[e] = "idle"
    /\ \E called \in BOOLEAN :
        sensor' = [sensor EXCEPT
                      ![e].phase = "stopped",
                      ![e].is_running = FALSE,
                      ![e].is_connected = IF called THEN FALSE ELSE @,
                      ![e].current_data.status =
                            IF called THEN "offline" ELSE @]
    /\ subscribed' = subscribed \ {e}
    /\ inbox' = [inbox EXCEPT ![e] = <<>>]
    /\ UNCHANGED <<tick, net, display, sent>>

\* one emitter from construction to stop(); no callback of the network
\* thread runs once stop() has returned
StopNext ==
    \E e \in {"A"} :
        \/ SensorThreadStart(e)
        \/ RunSensorBegin(e)
        \/ RunSensorEnd(e)
        \/ SensorStop(e)
        \/ SensorStartAbort(e)
        \/ /\ sensor[e].phase # "stopped"
           /\ \/ \E rc \in {0, 5} : SensorOnConnect(e, rc)
              \/ SensorSubscribe(e)
              \/ SensorOnDisconnect(e)
              \/ \E payload \in ControlPayloads : SensorDeliver(e, payload)
        \/ SensorToggle(e)
        \/ \E t \in Temps, h \in Hums : TickGenerate(e, t, h)
        \/ TickAssign(e)
        \/ TickCheck(e)
        \/ TickSend(e)

StopSpec == Init /\ [][StopNext]_vars

\* ---------------------------------------------------- failures in a tick

\* publish_data, lines 227-229: a statement of the try block raised
\* (json.dumps, client.publish, socketio.emit); the exception is logged,
\* publish_data returns False and run_sensor sleeps
TickSendFailsEnds(e) ==
    /\ tick[e].pc = "send"
    /\ sensor[e].errors < MaxErrs
    /\ sensor' = [sensor EXCEPT ![e].errors = @ + 1, ![e].is_running = FALSE]
    /\ tick' = [tick EXCEPT ![e].pc = "off"]
    /\ UNCHANGED <<net, display, subscribed, inbox, sent>>

TickSendFails(e) ==
    /\ tick[e].pc = "send"
    /\ sensor[e].errors < MaxErrs
    /\ sensor' = [sensor EXCEPT ![e].errors = @ + 1]
    /\ tick' = [tick EXCEPT ![e].pc = "loop"]
    /\ UNCHANGED <<net, display, subscribed, inbox, sent>>

\* run_sensor, lines 272-274: an exception that leaves generate_sensor_data
\* before line 191 is logged, the loop sleeps and goes on
TickRaises(e) ==
    /\ tick[e].pc = "assign"
    /\ sensor[e].errors < MaxErrs
    /\ sensor' = [sensor EXCEPT ![e].errors = @ + 1]
    /\ tick' = [tick EXCEPT ![e] = [pc |-> "loop", data |-> None]]
    /\ UNCHANGED <<net, display, subscribed, inbox, sent>>

\* the steps of the sensor thread
TickStep(e) ==
    \/ TickGenerate(e, 20, 40)
    \/ TickAssign(e)
    \/ TickRaises(e)
    \/ TickCheck(e)
    \/ TickSend(e)
    \/ TickSendFails(e)

\* one emitter whose ticks may fail, the connection comes and goes and
\* commands arrive
LiveNext ==
    \E e \in {"A"} :
        \/ SensorStart(e)
        \/ SensorStartAbort(e)
        \/ \E rc \in {0, 5} : SensorOnConnect(e, rc)
        \/ SensorSubscribe(e)
        \/ SensorOnDisconnect(e)
        \/ \E payload \in ControlPayloads : SensorDeliver(e, payload)
        \/ TickStep(e)

\* the sensor thread is scheduled: time.sleep returns and a statement that
\* can run does run
LiveSpec ==
    /\ Init
    /\ [][LiveNext]_vars
    /\ \A e \in {"A"} : WF_vars(TickStep(e))

\* ------------------------------------------- control commands on the wire
\* A string is a sequence of characters, a character a one-element name;
\* the JSON text and the MQTT payload are sequences too.

Quote == "\""
Backslash == "\\"
Newline == "\n"
\* one character outside ASCII, code point 0x00e9
NonAscii == "E9"

\* the characters a device id typed into the dashboard is made of
Alphabet == {"a", Quote, Backslash, "}", NonAscii}

StringsUpTo(n) == UNION {[1..k -> Alphabet] : k \in 0..n}

Key_command == <<"c", "o", "m", "m", "a", "n", "d">>
Key_device_id == <<"d", "e", "v", "i", "c", "e", "_", "i", "d">>
Key_timestamp == <<"t", "i", "m", "e", "s", "t", "a", "m", "p">>
Key_sender == <<"s", "e", "n", "d", "e", "r">>

Enable == <<"e", "n", "a", "b", "l", "e">>
Disable == <<"d", "i", "s", "a", "b", "l", "e">>
All == <<"a", "l", "l">>
\* datetime.now().isoformat(), shortened
IsoTime == <<"1", "1", "-", "0", "1", "T", "0", "8", ":", "1", "5", ".", "2">>

\* the valid control commands: command, target, time of issue, originator
Commands ==
    [command : {Enable, Disable},
     device_id : StringsUpTo(MaxLen) \cup {All},
     timestamp : {IsoTime},
     sender : {<<"o", "1">>}]

\* send_control_command, lines 246-251: the dict, in insertion order
ControlDataItems(c) ==
    << <<Key_command, c.command>>, <<Key_device_id, c.device_id>>,
       <<Key_timestamp, c.timestamp>>, <<Key_sender, c.sender>> >>

\* an encoder that copies every character as it is
EscapeNone(ch) == <<ch>>

\* json.dumps, ensure_ascii: one character of a string
Escape(ch) ==
    CASE ch = Quote -> <<Backslash, Quote>>
      [] ch = Backslash -> <<Backslash, Backslash>>
      [] ch = Newline -> <<Backslash, "n">>
      [] ch = NonAscii -> <<Backslash, "u", "0", "0", "e", "9">>
      [] OTHER -> <<ch>>

RECURSIVE EscapeAll(_)
EscapeAll(s) ==
    IF Len(s) = 0 THEN <<>> ELSE Escape(Head(s)) \o EscapeAll(Tail(s))

EncodeString(s) == <<Quote>> \o EscapeAll(s) \o <<Quote>>

RECURSIVE DumpsItems(_)
DumpsItems(items) ==
    IF Len(items) = 0 THEN <<>>
    ELSE EncodeString(items[1][1]) \o <<":", " ">> \o EncodeString(items[1][2])
            \o (IF Len(items) > 1 THEN <<",", " ">> ELSE <<>>)
            \o DumpsItems(Tail(items))

\* json.dumps of a dict of strings, default separators
Dumps(items) == <<"{">> \o DumpsItems(items) \o <<"}">>

\* the concatenation of units[lo], ..., units[hi], by halves
RECURSIVE Concat(_, _, _)
Concat(units, lo, hi) ==
    IF lo > hi THEN <<>>
    ELSE IF lo = hi THEN units[lo]
    ELSE LET mid == (lo + hi) \div 2 IN
         Concat(units, lo, mid) \o Concat(units, mid + 1, hi)

\* str.encode('utf-8'), done by client.publish: bytes, an ASCII character
\* is its own byte
Utf8Encode(s) ==
    LET units == [i \in 1..Len(s) |->
                    IF s[i] = NonAscii THEN <<"0xC3", "0xA9">> ELSE <<s[i]>>]
    IN  Concat(units, 1, Len(s))

\* the result of a decoding or parsing step that raises
Fail == [ok |-> FALSE]

\* bytes.decode('utf-8'), line 150; it raises UnicodeDecodeError on a byte
\* sequence that is no UTF-8: a lead byte without its continuation byte or
\* a continuation byte without its lead byte
Utf8Decode(b) ==
    LET units == [i \in 1..Len(b) |->
                    IF b[i] = "0xC3" THEN <<NonAscii>>
                    ELSE IF b[i] = "0xA9" THEN <<>>
                    ELSE <<b[i]>>]
    IN  IF \A i \in 1..Len(b) :
            /\ b[i] = "0xC3" => (i < Len(b) /\ b[i + 1] = "0xA9")
            /\ b[i] = "0xA9" => (i > 1 /\ b[i - 1] = "0xC3")
        THEN [ok |-> TRUE, val |-> Concat(units, 1, Len(b))]
        ELSE Fail

\* the \uXXXX escapes of the characters of the model
CodePoints == (<<"0", "0", "e", "9">> :> NonAscii)

\* json.loads: the characters of a string up to its closing quote
RECURSIVE ScanString(_, _, _)
ScanString(s, i, acc) ==
    IF i > Len(s) THEN Fail
    ELSE IF s[i] = Quote THEN [ok |-> TRUE, val |-> acc, next |-> i + 1]
    ELSE IF s[i] = Newline THEN Fail
    ELSE IF s[i] = Backslash
         THEN IF i + 1 > Len(s) THEN Fail
              ELSE IF s[i + 1] \in {Quote, Backslash, "/"}
                   THEN ScanString(s, i + 2, Append(acc, s[i + 1]))
              ELSE IF s[i + 1] = "n"
                   THEN ScanString(s, i + 2, Append(acc, Newline))
              ELSE IF /\ s[i + 1] = "u"
                      /\ i + 5 <= Len(s)
                      /\ SubSeq(s, i + 2, i + 5) \in DOMAIN CodePoints
                   THEN ScanString(s, i + 6,
                            Append(acc, CodePoints[SubSeq(s, i + 2, i + 5)]))
              ELSE Fail
    ELSE ScanString(s, i + 1, Append(acc, s[i]))

ParseString(s, i) ==
    IF i <= Len(s) /\ s[i] = Quote THEN ScanString(s, i + 1, <<>>) ELSE Fail

RECURSIVE SkipSpace(_, _)
SkipSpace(s, i) ==
    IF i <= Len(s) /\ s[i] = " " THEN SkipSpace(s, i + 1) ELSE i

\* json.loads: the members of an object whose values are strings; a key
\* met twice keeps its last value
RECURSIVE ParseMembers(_, _, _)
ParseMembers(s, i, d) ==
    LET k == ParseString(s, SkipSpace(s, i)) IN
    IF ~k.ok THEN Fail
    ELSE LET j == SkipSpace(s, k.next) IN
         IF j > Len(s) \/ s[j] # ":" THEN Fail
         ELSE LET v == ParseString(s, SkipSpace(s, j + 1)) IN
              IF ~v.ok THEN Fail
              ELSE LET m == SkipSpace(s, v.next)
                       d2 == Put(d, k.val, v.val)
                   IN  IF m > Len(s) THEN Fail
                       ELSE IF s[m] = "," THEN ParseMembers(s, m + 1, d2)
                       ELSE IF s[m] = "}"
                            THEN [ok |-> TRUE, val |-> d2, next |-> m + 1]
                       ELSE Fail

\* json.loads of the text of an object of strings
Loads(s) ==
    LET i == SkipSpace(s, 1) IN
    IF i > Len(s) \/ s[i] # "{" THEN Fail
    ELSE LET r == ParseMembers(s, i + 1, <<>>) IN
         IF r.ok /\ SkipSpace(s, r.next) > Len(s)
         THEN [ok |-> TRUE, val |-> r.val]
         ELSE Fail

\* on_message, line 150: the dict the emitter gets from the payload, or the
\* exception that line 168 catches
Decoded(payload) ==
    LET text == Utf8Decode(payload) IN
    IF text.ok THEN Loads(text.val) ELSE Fail

\* the command the emitter reads from the dict, with payload.get
CommandOf(data) ==
    [command |-> Get(data, Key_command, <<>>),
     device_id |-> Get(data, Key_device_id, <<>>),
     timestamp |-> Get(data, Key_timestamp, <<>>),
     sender |-> Get(data, Key_sender, <<>>)]

\* the observer holds a command of the dashboard, the emitter is subscribed;
\* the variables hold what the round trip uses: display the control_data of
\* the observer, sent and inbox the payload, sensor the dict of on_message
RoundTripInit ==
    /\ \E c \in Commands : display = [o \in {"o1"} |-> [control_data |-> c]]
    /\ sensor = [e \in {"A"} |-> [received |-> FALSE]]
    /\ tick = [e \in {"A"} |-> [pc |-> "off", data |-> None]]
    /\ net = [e \in {"A"} |-> "idle"]
    /\ subscribed = {"A"}
    /\ inbox = [e \in {"A"} |-> <<>>]
    /\ sent = [o \in {"o1"} |-> <<>>]

\* send_control_command, line 254: json.dumps and client.publish
SendControlCommand(o) ==
    /\ sent[o] = <<>>
    /\ LET payload == Utf8Encode(Dumps(ControlDataItems(display[o].control_data)))
       IN  /\ sent' = [sent EXCEPT ![o] = payload]
           /\ inbox' = [e \in DOMAIN inbox |->
                            IF e \in subscribed
                            THEN Append(inbox[e], [topic |-> topic_control,
                                                   data |-> payload])
                            ELSE inbox[e]]
    /\ UNCHANGED <<sensor, tick, net, display, subscribed>>

\* on_message of the emitter, line 150: decode and json.loads
OnMessageLoads(e) ==
    /\ inbox[e] # <<>>
    /\ Head(inbox[e]).topic = topic_control
    /\ sensor' = [sensor EXCEPT ![e] = [received |-> TRUE,
                                       payload |-> Decoded(Head(inbox[e]).data)]]
    /\ inbox' = [inbox EXCEPT ![e] = Tail(@)]
    /\ UNCHANGED <<tick, net, display, subscribed, sent>>

RoundTripNext ==
    \/ \E o \in {"o1"} : SendControlCommand(o)
    \/ \E e \in {"A"} : OnMessageLoads(e)

RoundTripSpec == RoundTripInit /\ [][RoundTripNext]_vars

\* ------------------------------------------------- commands of all kinds

\* the commands a control_device request may carry; "" is the default of
\* data.get('command', '')
RequestCommands == {"enable", "disable", "restart", ""}

\* a program other than the observer publishes a control payload; the
\* broker routes it like any other
ForeignControl(c, payload) ==
    /\ sent[c][topic_control].n < MaxCmds
    /\ sent' = Sent(c, topic_control, payload)
    /\ inbox' = Routed(c, TRUE, topic_control, payload)
    /\ UNCHANGED <<sensor, tick, net, display, subscribed>>

CmdInit == SysInitOf({"A"}, {"o1"})

\* emitter A and observer o1, connected; the dashboard sends requests with
\* any command, and client o2 stands for the foreign program
CmdNext ==
    \/ \E e \in {"A"} :
        \/ SensorReceive(e)
        \/ TickGenerate(e, 20, 40)
        \/ TickAssign(e)
        \/ TickCheck(e)
        \/ TickSend(e)
    \/ \E o \in {"o1"} :
        \/ DisplayReceive(o)
        \/ \E command \in RequestCommands, device_id \in {"A", "all"} :
                DisplayControlDevice(o, command, device_id)
    \/ \E payload \in ControlPayloads : ForeignControl("o2", payload)

CmdSpec == CmdInit /\ [][CmdNext]_vars

\* one emitter and one observer, connected: ticks, toggles and commands
ToggleSpec == SysInitOf({"A"}, {"o1"}) /\ [][SysNextOf({"A"}, {"o1"})]_vars

\* ------------------------------------------------------------------ claims

\* C1: an emitter that is handed a control command whose target is another
\* device id (neither its own id nor "all") keeps its Enabled flag.
C1_OtherTargetKeepsFlag ==
    [][\A e \in Emitters, p \in ControlPayloads :
        (p.device_id \notin {e, "all"} /\ SensorDeliver(e, p))
            => sensor'[e].sensor_enabled = sensor[e].sensor_enabled]_vars

\* C2: the handling of an enable or disable command addressed to a connected
\* emitter publishes one message on the topic the observers subscribe to,
\* carrying the emitter's resulting enabled state and its device id.
C2_CommandAcknowledged ==
    [][\A e \in Emitters, p \in ControlPayloads :
        (/\ p.command \in {"enable", "disable"}
         /\ p.device_id \in {e, "all"}
         /\ sensor[e].is_connected
         /\ SensorDeliver(e, p))
            => /\ sent'[e][topic_state].n = sent[e][topic_state].n + 1
               /\ sent'[e][topic_state].last.enabled = sensor'[e].sensor_enabled]_vars

\* no message is waiting in any client's inbox
AllDelivered == \A c \in Clients : inbox[c] = <<>>

\* no emitter has been toggled from its web interface
NoToggle == \A e \in Emitters : sent[e][topic_state].n = 0

\* observer o has issued exactly one command, for a single device, and no
\* other observer has issued any
OnlyCommandOf(o) ==
    /\ sent[o][topic_control].n = 1
    /\ sent[o][topic_control].last.device_id # "all"
    /\ \A q \in Observers \ {o} : sent[q][topic_control].n = 0

\* C3: once the single command an observer issued for one device has been
\* handled by every emitter and nothing is in flight (no toggle, no other
\* command), the observer's enabled value of every device in its store is
\* the Enabled flag of that device's emitter.
C3_StoreMatchesEmitters ==
    \A o \in Observers :
        (OnlyCommandOf(o) /\ NoToggle /\ AllDelivered)
            => \A d \in DOMAIN display[o].sensor_data.sensor_states :
                d \in Emitters =>
                    display[o].sensor_data.sensor_states[d]
                        = sensor[d].sensor_enabled

\* C4: both observers know device A; once the single command o1 issued for A
\* has been applied by A's emitter and nothing is in flight (no toggle, no
\* other command), o2's store shows A with the commanded value.
C4_OtherObserverLearns ==
    (/\ OnlyCommandOf("o1")
     /\ sent["o1"][topic_control].last.device_id = "A"
     /\ NoToggle /\ AllDelivered)
        => display["o2"].sensor_data.sensor_states["A"]
            = (sent["o1"][topic_control].last.command = "enable")

\* C5: a tick publishes a reading exactly when its test of the Enabled flag
\* (generation) and its test of the Connected flag (publication) both
\* succeed, and then it publishes one reading carrying the emitter's device
\* id; a tick that finds the emitter disabled or disconnected publishes
\* nothing and goes back to the head of the loop; nothing but the publish
\* step of a tick puts a reading on the readings topic.
C5_TickPublishesOne ==
    [][\A e \in Emitters :
        LET before == sent[e][topic_combined]
            after == sent'[e][topic_combined]
        IN  /\ (\E t \in Temps, h \in Hums : TickGenerate(e, t, h))
                  => /\ after = before
                     /\ tick'[e].pc = IF sensor[e].sensor_enabled
                                      THEN "assign" ELSE "loop"
            /\ TickAssign(e) => (after = before /\ tick'[e].pc = "check")
            /\ TickCheck(e)
                  => /\ after = before
                     /\ tick'[e].pc = IF sensor[e].is_connected
                                      THEN "send" ELSE "loop"
            /\ TickSend(e)
                  => /\ after.n = before.n + 1
                     /\ after.last.sensor_id = e
                     /\ tick'[e].pc = "loop"
            /\ after # before => tick[e].pc = "send"]_vars

\* C5 witness: an emitter has published one reading of its own id, was
\* disabled afterwards and its loop is back at its head
C5_Witness ==
    \E e \in Emitters :
        /\ sent[e][topic_combined].n = 1
        /\ sent[e][topic_combined].last.sensor_id = e
        /\ ~sensor[e].sensor_enabled
        /\ sensor[e].is_connected
        /\ tick[e].pc = "loop"

\* C6: a tick during which the emitter was disconnected hands no reading to
\* the bus (the publish call of a tick is made with the Connected flag up),
\* and a tick that finds the flag up after a reconnect goes on to publish.
C6_NoPublishAfterDisconnect ==
    [][\A e \in Emitters :
        /\ TickSend(e) => sensor[e].is_connected
        /\ (TickCheck(e) /\ sensor[e].is_connected) => tick'[e].pc = "send"]_vars

\* C7: after a reconnect no reading is published between the setting of the
\* Connected flag and the subscription to the control topic.
C7_SubscribedBeforePublishing ==
    [][\A e \in Emitters : TickSend(e) => net[e] # "subscribe"]_vars

\* a reading delivered to an observer
ReadingMsg(r) == [topic |-> topic_combined, data |-> r]

\* a state message delivered to an observer
StateMsg(p) == [topic |-> topic_state, data |-> p]

C9_AllNotRetroactive ==
    [][\A o \in Observers :
        LET st == display[o].sensor_data.sensor_states
            stn == display'[o].sensor_data.sensor_states
        IN  /\ (/\ Range(display[o].connected_devices) = {"A", "B"}
                /\ DisplayControlDevice(o, "disable", "all"))
                    => /\ stn["A"] = FALSE /\ stn["B"] = FALSE
                       /\ DOMAIN stn = DOMAIN st
            /\ \A r \in ReadingPayloads :
                (/\ r.sensor_id = "C"
                 /\ "C" \notin DOMAIN st
                 /\ Range(display[o].connected_devices) = {"A", "B"}
                 /\ ~st["A"] /\ ~st["B"]
                 /\ DisplayDeliver(o, ReadingMsg(r)))
                    => /\ stn["C"] = TRUE
                       /\ stn["A"] = FALSE /\ stn["B"] = FALSE]_vars

\* C9 witness: the observer has published one command, disable for all, and
\* has handled three messages, the first readings of A, B and then C; A and
\* B are disabled and C is enabled
C9_Witness ==
    \E o \in Observers :
        /\ sent[o][topic_control]
            = [n |-> 1, last |-> ControlData(o, "disable", "all")]
        /\ display[o].message_count = 3
        /\ Len(display[o].connected_devices) = 3
        /\ display[o].connected_devices[3] = "C"
        /\ display[o].sensor_data.combined.sensor_id = "C"
        /\ display[o].sensor_data.sensor_states
            = [x \in {"A", "B", "C"} |-> x = "C"]

\* C10: issuing disable for a device sets its enabled value to false in the
\* same step, in which no message is handled; a state message that reports
\* the device enabled, handled while the value is false, sets it to true.
C10_OptimisticThenAck ==
    [][\A o \in Observers, dev \in DeviceIds :
        LET st == display[o].sensor_data.sensor_states
            stn == display'[o].sensor_data.sensor_states
        IN  /\ DisplayControlDevice(o, "disable", dev)
                => /\ stn[dev] = FALSE
                   /\ display'[o].message_count = display[o].message_count
            /\ \A p \in StatePayloads :
                (/\ p.enabled
                 /\ Get(p.data, "sensor_id", "all") = dev
                 /\ dev \in DOMAIN st
                 /\ ~st[dev]
                 /\ DisplayDeliver(o, StateMsg(p)))
                    => stn[dev] = TRUE]_vars

\* C10 witness: the observer has published disable for A and has handled one
\* message, a state message; A is enabled in its store
C10_Witness ==
    \E o \in Observers :
        /\ sent[o][topic_control].n = 1
        /\ sent[o][topic_control].last.command = "disable"
        /\ sent[o][topic_control].last.device_id = "A"
        /\ display[o].message_count = 1
        /\ display[o].connected_devices = <<>>
        /\ display[o].sensor_data.sensor_states = [x \in {"A"} |-> TRUE]

\* the device id a state message names, as handle_control_data reads it
StateDevice(p) == Get(p.data, "sensor_id", "all")

\* C11: a state message for device d, once handled, leaves d's enabled value
\* equal to the value the message carries, whatever was stored before; and
\* the value of a stored device changes only when a state message for it is
\* handled or a command is issued, so after several state messages with no
\* command in between the value is that of the last one.
C11_AckAuthoritative ==
    [][\A o \in Observers, dev \in DeviceIds :
        LET st == display[o].sensor_data.sensor_states
            stn == display'[o].sensor_data.sensor_states
        IN  /\ \A p \in StatePayloads :
                (StateDevice(p) = dev /\ DisplayDeliver(o, StateMsg(p)))
                    => stn[dev] = p.enabled
            /\ (dev \in DOMAIN st /\ stn[dev] # st[dev])
                    => \/ \E p \in StatePayloads :
                            StateDevice(p) = dev /\ DisplayDeliver(o, StateMsg(p))
                       \/ \E command \in {"enable", "disable"},
                             device_id \in DeviceIds \cup {"all"} :
                            DisplayControlDevice(o, command, device_id)]_vars

\* C11 witness: the observer has published enable for A, which set A to
\* true, and has then handled one message, a state message; A is disabled
C11_Witness ==
    \E o \in Observers :
        /\ sent[o][topic_control]
            = [n |-> 1, last |-> ControlData(o, "enable", "A")]
        /\ display[o].message_count = 1
        /\ display[o].connected_devices = <<>>
        /\ display[o].sensor_data.sensor_states = [x \in {"A"} |-> FALSE]

\* C12: handling a state message when the store already holds, for the
\* device it names, the value it carries (as it does right after the same
\* message was handled) leaves the whole device-state mapping unchanged.
C12_AckIdempotent ==
    [][\A o \in Observers, p \in StatePayloads :
        LET st == display[o].sensor_data.sensor_states
            stn == display'[o].sensor_data.sensor_states
        IN  (/\ StateDevice(p) \in DOMAIN st
             /\ st[StateDevice(p)] = p.enabled
             /\ DisplayDeliver(o, StateMsg(p)))
                => stn = st]_vars

\* C12 witness: two messages were handled, none a reading and none on a
\* single-value topic, no command was published, and the mapping holds B
\* enabled
C12_Witness ==
    \E o \in Observers :
        /\ display[o].message_count = 2
        /\ display[o].connected_devices = <<>>
        /\ display[o].sensor_data
            = [InitSensorData EXCEPT !.sensor_states = [x \in {"B"} |-> TRUE]]
        /\ sent[o][topic_control].n = 0
        /\ display[o].is_connected

\* C13: a command for "all" sets the enabled value of every device id that
\* has an entry in the store, however the entry was created, and creates no
\* entry.
C13_AllCoversStore ==
    [][\A o \in Observers, command \in {"enable", "disable"} :
        LET st == display[o].sensor_data.sensor_states
            stn == display'[o].sensor_data.sensor_states
        IN  DisplayControlDevice(o, command, "all")
                => /\ DOMAIN stn = DOMAIN st
                   /\ \A x \in DOMAIN st \cap DeviceIds :
                            stn[x] = (command = "enable")]_vars

\* C14: a state message that names no device, once handled, has set every
\* entry of the store to the value it carries and has created no entry.
C14_AckForAllExpands ==
    [][\A o \in Observers :
        LET st == display[o].sensor_data.sensor_states
            stn == display'[o].sensor_data.sensor_states
        IN  (/\ inbox[o] # <<>>
             /\ Head(inbox[o]).topic = topic_state
             /\ "sensor_id" \notin DOMAIN Head(inbox[o]).data.data
             /\ DisplayReceive(o))
                => /\ DOMAIN stn = DOMAIN st
                   /\ \A x \in DOMAIN st : stn[x] = Head(inbox[o]).data.enabled]_vars

\* C15: every key of the observer's device-state mapping is an identity
\* minted by an emitter; the strings "all" and "unknown" are never keys.
C15_KeysAreDeviceIds ==
    \A o \in Observers :
        DOMAIN display[o].sensor_data.sensor_states \subseteq Emitters

\* C16: a reading of a device id that has no store entry creates the entry
\* with enabled = true; a reading of a device id that has an entry, however
\* it was created, leaves the entry's enabled value unchanged.
C16_ReadingKeepsEnabled ==
    [][\A o \in Observers, r \in ReadingPayloads :
        LET st == display[o].sensor_data.sensor_states
            stn == display'[o].sensor_data.sensor_states
        IN  DisplayDeliver(o, ReadingMsg(r))
                => IF r.sensor_id \in DOMAIN st
                   THEN stn[r.sensor_id] = st[r.sensor_id]
                   ELSE stn[r.sensor_id] = TRUE]_vars

\* C16 witness: the state in which the observer that published disable for
\* C, its only command, has handled one message, the first reading of C: C
\* is listed and disabled
C16_Witness ==
    \E o \in Observers :
        /\ sent[o][topic_control]
            = [n |-> 1, last |-> ControlData(o, "disable", "C")]
        /\ display[o].message_count = 1
        /\ display[o].connected_devices = <<"C">>
        /\ display[o].sensor_data.combined.sensor_id = "C"
        /\ display[o].sensor_data.sensor_states = [x \in {"C"} |-> FALSE]

\* C17: no step removes a key of the device-state mapping or a member of
\* the list of connected devices; the list only grows at its end.
C17_DevicesNeverRemoved ==
    [][\A o \in Observers :
        LET st == display[o].sensor_data.sensor_states
            stn == display'[o].sensor_data.sensor_states
            cd == display[o].connected_devices
            cdn == display'[o].connected_devices
        IN  /\ DOMAIN st \subseteq DOMAIN stn
            /\ Len(cd) <= Len(cdn)
            /\ SubSeq(cdn, 1, Len(cd)) = cd]_vars

\* C17 witness: the observer that has seen A and then B has lost its
\* connection and still holds both
C17_Witness ==
    \E o \in Observers :
        /\ display[o].phase = "running"
        /\ ~display[o].is_connected
        /\ display[o].connected_devices = <<"A", "B">>
        /\ DOMAIN display[o].sensor_data.sensor_states = {"A", "B"}

\* C18: the object a handler got from _serialize_sensor_data shows, for as
\* long as the handler holds it, what the store held when the call was made,
\* whatever is written to the store since; and the call changes nothing in
\* the store.
C18_SnapshotIsCopy ==
    [][\A o \in Observers :
        LET d == display[o]
            dn == display'[o]
        IN  /\ Holding(dn.web)
                => Content(dn, dn.web.snapshot) = dn.web.taken
            /\ dn.handling.pc = "emit"
                => Content(dn, dn.handling.snapshot) = dn.handling.taken
            /\ (HandleConnect(o) \/ OnMessageSerialize(o) \/ ControlSerialize(o))
                => /\ dn.sensor_data = d.sensor_data
                   /\ dn.connected_devices = d.connected_devices]_vars

\* the network thread is inside handle_combined_data, past line 216
InsideCombined(h) ==
    /\ h.msg # None
    /\ h.msg.topic = topic_combined
    /\ h.pc \in {"temperature", "humidity", "listed", "state_test", "state_set"}

\* C19: what a web handler emits while the network thread is handling a
\* reading never shows that reading as the last reading next to a
\* temperature or humidity value that is not the reading's, and never lists
\* a device that has no enabled entry.
C19_NoPartialUpdateSeen ==
    [][\A o \in Observers :
        WebEmit(o) =>
            LET h == display[o].handling
                e == display'[o].emitted
            IN  /\ (InsideCombined(h) /\ e.data.combined = h.msg.data)
                    => /\ e.data.temperature.value = h.msg.data.temperature
                       /\ e.data.humidity.value = h.msg.data.humidity
                /\ \A dev \in Range(e.stats.device_list) :
                        dev \in DOMAIN e.data.sensor_states]_vars

\* the store of an observer: the data and the list of devices
Store(d) == <<d.sensor_data, d.connected_devices>>

\* C20: when an observer that started with an empty store has handled one
\* message and has issued one command, both handlers having returned, its
\* store is the store after the whole on_message followed by the whole
\* command, or the store after the whole command followed by the whole
\* on_message.
C20_WritesSerialized ==
    \A o \in Observers :
        LET d == display[o]
            c == sent[o][topic_control]
            d0 == [d EXCEPT !.sensor_data = InitSensorData,
                            !.connected_devices = <<>>,
                            !.message_count = 0]
        IN  (/\ d.handling.pc = "idle"
             /\ d.handling.msg # None
             /\ d.web = None
             /\ d.message_count = 1
             /\ c.n = 1)
                => Store(d) \in
                    { Store(LocalUpdate(OnMessageResult(d0, d.handling.msg).d,
                                        c.last.command, c.last.device_id)),
                      Store(OnMessageResult(
                                LocalUpdate(d0, c.last.command, c.last.device_id),
                                d.handling.msg).d) }

\* C21: a payload that is no JSON, handed to the emitter or to the observer,
\* is dropped inside the callback: the emitter's Enabled flag, the observer's
\* store and its message count are as before, and so is everything else a
\* later message is handled with.
C21_GarbageDropped ==
    [][/\ \A e \in Emitters :
            SensorDeliver(e, Garbage)
                => sensor'[e] = [sensor[e] EXCEPT !.errors = @ + 1]
       /\ \A o \in Observers, msg \in GarbageMessages :
            DisplayDeliver(o, msg)
                => display'[o] = [display[o] EXCEPT !.undecoded = @ + 1]]_vars

\* C21 witness: the emitter and the observer have each given up on a payload
\* and have each handled a message: the emitter is disabled, the observer
\* has counted one message and lists A
C21_Witness ==
    /\ \E e \in Emitters : sensor[e].errors = 1 /\ ~sensor[e].sensor_enabled
    /\ \E o \in Observers :
        /\ display[o].undecoded = 1
        /\ display[o].message_count = 1
        /\ display[o].connected_devices = <<"A">>

\* C22: a reading that parses and lacks the temperature or the humidity is
\* discarded as a whole: it leaves the stored last reading, the temperature
\* and humidity values, the device list and the device-state mapping as
\* they were.
C22_MalformedDiscarded ==
    [][\A o \in Observers, r \in MalformedReadings :
        DisplayDeliver(o, ReadingMsg(r))
            => /\ display'[o].sensor_data = display[o].sensor_data
               /\ display'[o].connected_devices
                    = display[o].connected_devices]_vars

\* the connected flag of a client
Connected(c) ==
    IF c \in Emitters THEN sensor[c].is_connected ELSE display[c].is_connected

\* C23: no client calls publish while its own connected flag is false, be
\* it for a reading, for the state message of a toggle or for a command.
C23_PublishOnlyConnected ==
    [][\A c \in Clients, t \in {topic_combined, topic_control, topic_state} :
        sent'[c][t].n > sent[c][t].n => Connected(c)]_vars

\* C24: in both processes the connected flag becomes true only in
\* on_connect with result code 0 and false only in on_disconnect; on_connect
\* with another result code leaves it as it is, and so does every other
\* step.
C24_FlagOnlyInCallbacks ==
    [][/\ \A e \in Emitters :
            /\ (~sensor[e].is_connected /\ sensor'[e].is_connected)
                    => SensorOnConnect(e, 0)
            /\ (sensor[e].is_connected /\ ~sensor'[e].is_connected)
                    => SensorOnDisconnect(e)
            /\ SensorOnConnect(e, 5)
                    => sensor'[e].is_connected = sensor[e].is_connected
       /\ \A o \in Observers :
            /\ (~display[o].is_connected /\ display'[o].is_connected)
                    => DisplayOnConnect(o, 0)
            /\ (display[o].is_connected /\ ~display'[o].is_connected)
                    => DisplayOnDisconnect(o)
            /\ DisplayOnConnect(o, 5)
                    => display'[o].is_connected = display[o].is_connected]_vars

\* C24 witness: the emitter is connected, has been toggled and has published
\* a reading, and has handled a command; the observer, which published
\* that command, has lost its connection since
C24_Witness ==
    /\ \E e \in Emitters :
        /\ sensor[e].is_connected
        /\ sent[e][topic_state].n = 1
        /\ sent[e][topic_combined].n = 1
    /\ \E o \in Observers :
        /\ display[o].phase = "running"
        /\ ~display[o].is_connected
        /\ sent[o][topic_control].n = 1

\* C25: connecting, subscribing and disconnecting leave the emitter's
\* Enabled flag as it is; a toggle flips it and an enable or disable command
\* sets it, whatever the connected flag is.
C25_EnabledIndependent ==
    [][\A e \in Emitters :
        LET enabled == sensor[e].sensor_enabled
            enabledn == sensor'[e].sensor_enabled
        IN  /\ ((\E rc \in {0, 5} : SensorOnConnect(e, rc))
                    \/ SensorSubscribe(e) \/ SensorOnDisconnect(e))
                    => enabledn = enabled
            /\ SensorToggle(e) => enabledn = ~enabled
            /\ \A p \in ControlPayloads :
                    SensorDeliver(e, p)
                        => enabledn = IF p.command = "enable" THEN TRUE
                                      ELSE IF p.command = "disable" THEN FALSE
                                      ELSE enabled]_vars

\* C25 witness: the emitter was toggled off while it was disconnected (the
\* state message it published says so) and is connected and subscribed
\* again, still disabled
C25_Witness ==
    \E e \in Emitters :
        /\ sent[e][topic_state].n = 1
        /\ ~sent[e][topic_state].last.connected
        /\ ~sent[e][topic_state].last.enabled
        /\ sensor[e].is_connected
        /\ e \in subscribed
        /\ ~sensor[e].sensor_enabled

\* C26: an emitter whose start-up was aborted never has is_running set,
\* never runs a tick and never publishes; an observer whose start-up was
\* aborted never runs its web server and never publishes; start-up is
\* aborted only with the connected flag down.
C26_StartAborts ==
    [][/\ \A e \in Emitters :
            /\ SensorStartAbort(e) => ~sensor[e].is_connected
            /\ sensor[e].phase = "aborted"
                    => /\ sensor'[e].phase = "aborted"
                       /\ ~sensor'[e].is_running
                       /\ tick'[e].pc = "off"
                       /\ sent'[e][topic_combined].n = 0
                       /\ sent'[e] = sent[e]
       /\ \A o \in Observers :
            /\ DisplayStartAbort(o) => ~display[o].is_connected
            /\ display[o].phase = "aborted"
                    => /\ display'[o].phase = "aborted"
                       /\ sent'[o] = sent[o]]_vars

\* C26 witness: the start-up of the emitter and of the observer were both
\* aborted
C26_Witness ==
    /\ \E e \in Emitters : sensor[e].phase = "aborted"
    /\ \E o \in Observers : display[o].phase = "aborted"

\* C30: an emitter whose Enabled flag is false publishes no reading, also
\* when the disable command is handled while a tick holds a reading it has
\* generated and not yet published.  The emitters looked at were never
\* toggled locally, so their flag is false only by a disable command.
C30_NoReadingWhileDisabled ==
    [][\A e \in Emitters :
        (TickSend(e) /\ sent[e][topic_state].n = 0)
            => sensor[e].sensor_enabled]_vars

\* C27: once stop() has returned, the loop test of run_sensor never passes
\* again: the loop ends after at most the iteration in progress, and no
\* iteration that could publish a reading begins.
C27_NoTickAfterStop ==
    [][\A e \in Emitters :
        sensor[e].phase = "stopped"
            => ~(\E t \in Temps, h \in Hums : TickGenerate(e, t, h))]_vars

\* the emitter is started, enabled and connected
Ready(e) ==
    /\ sensor[e].is_running
    /\ sensor[e].sensor_enabled
    /\ sensor[e].is_connected

\* C28: a tick in progress always comes back to the loop test, whether its
\* publish succeeded, failed or an exception was raised; and an emitter that
\* from some point on stays running, enabled and connected publishes again,
\* up to the bound of the model, whatever ticks failed before.
C28_LoopSurvivesFailure ==
    \A e \in {"A"} :
        /\ (tick[e].pc \in {"assign", "check", "send"}) ~> (tick[e].pc = "loop")
        /\ (<>[]Ready(e)) => <>(sent[e][topic_combined].n = MaxReadings)

\* C28 witness: a tick has failed, no reading has been published yet, and a
\* later tick is at its publish call
C28_Witness ==
    \E e \in Emitters :
        /\ sensor[e].errors >= 1
        /\ sensor[e].is_running
        /\ sent[e][topic_combined].n = 0
        /\ tick[e].pc = "send"

\* C29: the dict the emitter decodes from the payload of a control command
\* is that command: command, target, time of issue and originator are the
\* strings the observer encoded, character for character.
C29_RoundTrip ==
    \A e \in DOMAIN sensor, o \in DOMAIN display :
        sensor[e].received
            => /\ sensor[e].payload.ok
               /\ CommandOf(sensor[e].payload.val) = display[o].control_data
               /\ DOMAIN sensor[e].payload.val
                    = {Key_command, Key_device_id, Key_timestamp, Key_sender}

\* C29 witness: the emitter has decoded a command whose target holds a
\* quote and a backslash
C29_Witness ==
    /\ sensor["A"].received
    /\ display["o1"].control_data.device_id = <<Quote, Backslash>>
    /\ display["o1"].control_data.command = Disable

\* the device states after the optimistic update of a command, written out
StatesAfter(d, command, device_id) ==
    LET st == d.sensor_data.sensor_states
        targets == IF device_id = "all" THEN Range(d.connected_devices)
                   ELSE {device_id}
    IN  [x \in DOMAIN st \cup targets |->
            IF x \in targets THEN command = "enable" ELSE st[x]]

\* C31: in every state where the observer runs and is disconnected, a
\* control_device request with a valid command can be handled, and handling
\* it publishes nothing, changes no inbox and leaves the store with the
\* optimistic update applied: the named device, or every listed device for
\* "all", gets the commanded value, as it does when the command is
\* published.
C31_UpdateWithoutPublish ==
    \A o \in {"o1"}, command \in {"enable", "disable"},
       device_id \in DeviceIds \cup {"all"} :
        (display[o].phase = "running" /\ ~display[o].is_connected)
            => /\ ENABLED (/\ DisplayControlDevice(o, command, device_id)
                           /\ display'[o].sensor_data.sensor_states
                                = StatesAfter(display[o], command, device_id)
                           /\ sent' = sent
                           /\ inbox' = inbox)
               /\ ~ENABLED (/\ DisplayControlDevice(o, command, device_id)
                            /\ \/ display'[o].sensor_data.sensor_states
                                    # StatesAfter(display[o], command, device_id)
                               \/ sent' # sent
                               \/ inbox' # inbox)

\* C31 witness: a disconnected observer that has published no command holds
\* A as disabled though no message ever said so
C31_Witness ==
    \E o \in Observers :
        /\ ~display[o].is_connected
        /\ sent[o][topic_control].n = 0
        /\ display[o].message_count = 0
        /\ "A" \in DOMAIN display[o].sensor_data.sensor_states
        /\ ~display[o].sensor_data.sensor_states["A"]

\* C32: a control_device request whose command is neither "enable" nor
\* "disable" publishes nothing and leaves the observer's store as it is;
\* every payload the observer publishes on the control topic carries
\* "enable" or "disable"; and an emitter that handles a control message
\* with another command keeps its Enabled flag.
C32_OtherCommandsIgnored ==
    [][/\ \A o \in {"o1"} :
            /\ \A command \in RequestCommands \ {"enable", "disable"},
                  device_id \in DeviceIds \cup {"all"} :
                    DisplayControlDevice(o, command, device_id)
                        => (display' = display /\ sent' = sent /\ inbox' = inbox)
            /\ sent'[o][topic_control] # sent[o][topic_control]
                    => sent'[o][topic_control].last.command
                            \in {"enable", "disable"}
       /\ \A e \in Emitters :
            (/\ SensorReceive(e)
             /\ Head(inbox[e]).topic = topic_control
             /\ Head(inbox[e]).data.command \notin {"enable", "disable"})
                => sensor'[e].sensor_enabled = sensor[e].sensor_enabled]_vars

\* C32 witness: the emitter, disabled by a command of the observer, has
\* since handled the "restart" of the foreign program and is still disabled
C32_Witness ==
    /\ sent["o1"][topic_control].n = 1
    /\ sent["o1"][topic_control].last.command = "disable"
    /\ sent["o2"][topic_control].n = 1
    /\ sent["o2"][topic_control].last.command = "restart"
    /\ inbox["A"] = <<>>
    /\ ~sensor["A"].sensor_enabled

\* the last state message of emitter e names e as its device
NamesItself(e) ==
    /\ sent[e][topic_state].n > 0
    /\ Get(sent[e][topic_state].last.data, "sensor_id", "all") = e

\* C33: a toggle flips the Enabled flag (so two toggles in a row restore
\* it) and publishes a state message that carries the new flag and, when a
\* reading had been generated before, the emitter's id; an observer that
\* handles a state message naming a device stores the carried value for
\* that device; so, with no command issued, once the observer has handled
\* everything routed to it, its entry for the emitter is the emitter's flag.
C33_ToggleReachesStore ==
    /\ [][\A e \in Emitters :
            /\ SensorToggle(e)
                => /\ sensor'[e].sensor_enabled = ~sensor[e].sensor_enabled
                   /\ sent'[e][topic_state].last.enabled
                        = sensor'[e].sensor_enabled
                   /\ "sensor_id" \in DOMAIN sensor[e].current_data
                        => Get(sent'[e][topic_state].last.data,
                               "sensor_id", "all") = e
            /\ \A o \in Observers :
                (/\ DisplayReceive(o)
                 /\ Head(inbox[o]).topic = topic_state
                 /\ Get(Head(inbox[o]).data.data, "sensor_id", "all") = e)
                    => display'[o].sensor_data.sensor_states[e]
                            = Head(inbox[o]).data.enabled]_vars
    /\ [](\A e \in Emitters, o \in {"o1"} :
            (/\ NamesItself(e)
             /\ inbox[o] = <<>>
             /\ \A c \in Observers : sent[c][topic_control].n = 0)
                => /\ e \in DOMAIN display[o].sensor_data.sensor_states
                   /\ display[o].sensor_data.sensor_states[e]
                        = sensor[e].sensor_enabled)

\* C33 witness: emitter A generated a reading, was toggled off and published
\* the reading; the observer has handled the state message and the reading
\* and holds A as disabled
C33_Witness ==
    /\ NamesItself("A")
    /\ ~sensor["A"].sensor_enabled
    /\ sent["A"][topic_combined].n > 0
    /\ inbox["o1"] = <<>>
    /\ sent["o1"][topic_control].n = 0
    /\ display["o1"].message_count >= 2
    /\ ~Get(display["o1"].sensor_data.sensor_states, "A", TRUE)

\* C34: whenever the observer is between two operations, its list of
\* connected devices holds no device twice and every device in it has an
\* entry in the device states, whatever messages it has been handed.
C34_ListWellFormed ==
    \A o \in Observers :
        LET devices == display[o].connected_devices IN
        /\ \A i, j \in DOMAIN devices : devices[i] = devices[j] => i = j
        /\ Range(devices) \subseteq DOMAIN display[o].sensor_data.sensor_states

\* C35: a reading that an emitter publishes while its connected flag is up
\* carries the status "online", also when it was generated while the
\* emitter was disconnected and the connection came up before the publish
\* step of the same tick.
C35_PublishedOnline ==
    [][\A e \in Emitters :
        (TickSend(e) /\ sensor[e].is_connected)
            => sent'[e][topic_combined].last.status = "online"]_vars
====
